---------------------------- MODULE Spec2Model ----------------------------
(***************************************************************************)
(* Model of cli/src/git_util.rs: the secure-entry (pinentry) adapter and   *)
(* its percent-escape decoder, the remote credential callbacks and their   *)
(* Mutex<&mut Ui>, the import-stats and failed-export printers, and the    *)
(* "~/" path expansion.                                                    *)
(*                                                                         *)
(* Strings that the code inspects byte by byte are sequences of byte       *)
(* values (0..255).  Option<T> is a record with a "tag" field.             *)
(***************************************************************************)
EXTENDS Integers, Sequences, FiniteSets, TLC

VARIABLES
    \* pinentry_get_pw::decode_assuan_data
    encoded, decode_pc, decode_ret,
    \* pinentry_get_pw
    pin_lines, pin_io, pin_pc, pin_ret,
    \* with_remote_git_callbacks
    ui_mutex, cb_pc, cb_url, cb_env, cb_pin, cb_user, cb_ans, cb_ret, cb_trace,
    \* print_git_import_stats
    stats, show_ref_stats, view_tracking, import_pc, refs_stats, import_out, import_ret,
    \* print_failed_git_export
    failed_branches, export_pc, export_out, export_ret,
    \* expand_git_path
    path_str, env_home, expand_pc, expand_ret

decodeVars == <<encoded, decode_pc, decode_ret>>
pinVars == <<pin_lines, pin_io, pin_pc, pin_ret>>
cbVars == <<ui_mutex, cb_pc, cb_url, cb_env, cb_pin, cb_user, cb_ans, cb_ret, cb_trace>>
importVars == <<stats, show_ref_stats, view_tracking, import_pc, refs_stats, import_out, import_ret>>
exportVars == <<failed_branches, export_pc, export_out, export_ret>>
expandVars == <<path_str, env_home, expand_pc, expand_ret>>
vars == <<decodeVars, pinVars, cbVars, importVars, exportVars, expandVars>>

-----------------------------------------------------------------------------
(* Bounds of the model.                                                    *)

\* longest encoded payload handed to decode_assuan_data
MaxEncLen == 6
\* most output lines the helper process prints
MaxLines == 3
\* most changed references in one GitImportStats
MaxRefs == 2
\* most abandoned commits in one GitImportStats
MaxAbandoned == 2
\* most failed exports in one list
MaxFailed == 2
\* longest path string handed to expand_git_path
MaxPathLen == 4

-----------------------------------------------------------------------------
(* Bytes, strings and Option.                                              *)

Byte(c) ==
    CASE c = "\n" -> 10
      [] c = " " -> 32
      [] c = "%" -> 37
      [] c = "+" -> 43
      [] c = "-" -> 45
      [] c = "/" -> 47
      [] c = "0" -> 48
      [] c = "1" -> 49
      [] c = "4" -> 52
      [] c = "8" -> 56
      [] c = "@" -> 64
      [] c = "D" -> 68
      [] c = "E" -> 69
      [] c = "K" -> 75
      [] c = "O" -> 79
      [] c = "R" -> 82
      [] c = "a" -> 97
      [] c = "b" -> 98
      [] c = "c" -> 99
      [] c = "g" -> 103
      [] c = "h" -> 104
      [] c = "s" -> 115
      [] c = "u" -> 117
      [] c = "x" -> 120
      [] c = "~" -> 126

Str(cs) == [i \in DOMAIN cs |-> Byte(cs[i])]

None == [tag |-> "None"]
Some(v) == [tag |-> "Some", val |-> v]
IsSome(o) == o.tag = "Some"
IsNone(o) == o.tag = "None"

\* Option::or_else
OrElse(o, alt) == IF IsSome(o) THEN o ELSE alt

\* str::starts_with on byte strings
StartsWith(s, p) == Len(s) >= Len(p) /\ SubSeq(s, 1, Len(p)) = p

\* the text after the first n bytes (str::split_at(n).1, str::strip_prefix)
After(s, n) == SubSeq(s, n + 1, Len(s))

-----------------------------------------------------------------------------
(* UTF-8 validity, as std::str::from_utf8 / String::from_utf8 decide it.   *)

IsCont(b) == b >= 128 /\ b <= 191

RECURSIVE IsUtf8(_)
IsUtf8(bs) ==
    IF bs = <<>> THEN TRUE
    ELSE LET b == Head(bs)
             n == Len(bs)
         IN  IF b < 128 THEN IsUtf8(Tail(bs))
             ELSE IF b >= 194 /\ b <= 223
                  THEN n >= 2 /\ IsCont(bs[2]) /\ IsUtf8(After(bs, 2))
             ELSE IF b >= 224 /\ b <= 239
                  THEN /\ n >= 3
                       /\ IsCont(bs[2]) /\ IsCont(bs[3])
                       /\ (b = 224 => bs[2] >= 160)
                       /\ (b = 237 => bs[2] <= 159)
                       /\ IsUtf8(After(bs, 3))
             ELSE IF b >= 240 /\ b <= 244
                  THEN /\ n >= 4
                       /\ IsCont(bs[2]) /\ IsCont(bs[3]) /\ IsCont(bs[4])
                       /\ (b = 240 => bs[2] >= 144)
                       /\ (b = 244 => bs[2] <= 143)
                       /\ IsUtf8(After(bs, 4))
             ELSE FALSE

-----------------------------------------------------------------------------
(* pinentry_get_pw::decode_assuan_data                                     *)

\* char::to_digit(16) on one byte: the digit's value, or -1
ToDigit16(b) ==
    IF b >= 48 /\ b <= 57 THEN b - 48
    ELSE IF b >= 97 /\ b <= 102 THEN b - 87
    ELSE IF b >= 65 /\ b <= 70 THEN b - 55
    ELSE -1

\* the digits u8::from_str_radix parses after its sign handling: a lone sign
\* is an error (<<>> here), a leading '+' is skipped, and '-' is no sign for
\* an unsigned type
StripSign(src) ==
    IF src = <<Byte("+")>> \/ src = <<Byte("-")>> THEN <<>>
    ELSE IF src # <<>> /\ Head(src) = Byte("+") THEN Tail(src)
    ELSE src

RECURSIVE DigitsValue(_, _)
DigitsValue(digits, acc) ==
    IF digits = <<>> THEN acc
    ELSE DigitsValue(Tail(digits), acc * 16 + ToDigit16(Head(digits)))

\* u8::from_str_radix(src, 16): Some(byte) or None
from_str_radix_u8(src) ==
    LET digits == StripSign(src)
    IN  IF digits = <<>> THEN None
        ELSE IF \E i \in DOMAIN digits : ToDigit16(digits[i]) < 0 THEN None
        ELSE IF DigitsValue(digits, 0) > 255 THEN None
        ELSE Some(DigitsValue(digits, 0))

\* encoded.get(i..i + 2) with the code's 0-based i
GetSlice2(bytes, i) ==
    IF i + 2 <= Len(bytes) THEN Some(SubSeq(bytes, i + 1, i + 2)) ELSE None

\* the escape at 0-based offset i (just past a '%'): the slice, as text, as a byte
EscapeByte(bytes, i) ==
    LET slice == GetSlice2(bytes, i)
    IN  IF IsNone(slice) THEN None
        ELSE IF ~IsUtf8(slice.val) THEN None
        ELSE from_str_radix_u8(slice.val)

\* the while loop: i is the code's 0-based index, decoded the Vec so far
RECURSIVE DecodeLoop(_, _, _)
DecodeLoop(bytes, i, decoded) ==
    IF ~(i < Len(bytes)) THEN Some(decoded)
    ELSE IF bytes[i + 1] # Byte("%")
         THEN DecodeLoop(bytes, i + 1, Append(decoded, bytes[i + 1]))
    ELSE LET byte == EscapeByte(bytes, i + 1)
         IN  IF IsNone(byte) THEN None
             ELSE DecodeLoop(bytes, i + 3, Append(decoded, byte.val))

decode_assuan_data(enc) ==
    LET decoded == DecodeLoop(enc, 0, <<>>)
    IN  IF IsNone(decoded) THEN None
        ELSE IF IsUtf8(decoded.val) THEN decoded
        ELSE None

-----------------------------------------------------------------------------
(* pinentry_get_pw                                                         *)

\* what the helper process writes to its stdout: its lines, newline-separated
RECURSIVE JoinLines(_)
JoinLines(lines) ==
    IF lines = <<>> THEN <<>>
    ELSE IF Len(lines) = 1 THEN lines[1]
    ELSE lines[1] \o <<Byte("\n")>> \o JoinLines(Tail(lines))

\* str::split('\n'): the pieces between separators; cur is the piece being read
RECURSIVE SplitFrom(_, _)
SplitFrom(s, cur) ==
    IF s = <<>> THEN <<cur>>
    ELSE IF Head(s) = Byte("\n") THEN <<cur>> \o SplitFrom(Tail(s), <<>>)
    ELSE SplitFrom(Tail(s), Append(cur, Head(s)))

Split(s) == SplitFrom(s, <<>>)

\* ScanLines with a data line that fails to decode skipped like a status line
RECURSIVE ScanLinesSkipBad(_)
ScanLinesSkipBad(lines) ==
    IF lines = <<>> THEN None
    ELSE IF ~StartsWith(Head(lines), Str(<<"D", " ">>)) THEN ScanLinesSkipBad(Tail(lines))
    ELSE IF IsNone(decode_assuan_data(After(Head(lines), 2))) THEN ScanLinesSkipBad(Tail(lines))
    ELSE decode_assuan_data(After(Head(lines), 2))

\* the for loop over the lines: skip until a line starts with "D ", return its decoding
RECURSIVE ScanLines(_)
ScanLines(lines) ==
    IF lines = <<>> THEN None
    ELSE IF ~StartsWith(Head(lines), Str(<<"D", " ">>)) THEN ScanLines(Tail(lines))
    ELSE decode_assuan_data(After(Head(lines), 2))

\* io: how far the exchange with the helper gets; out: what the helper printed
pinentry_get_pw(io, out) ==
    IF io = "spawn_err" THEN None
    ELSE IF io = "write_err" \/ io = "read_err" THEN None
    ELSE ScanLines(Split(out))

PinIo == {"spawn_err", "write_err", "read_err", "ok"}

-----------------------------------------------------------------------------
(* get_ssh_keys                                                            *)

KeyFilenames == <<"id_ed25519_sk", "id_ed25519", "id_rsa">>

RECURSIVE KeyPaths(_, _, _)
KeyPaths(ssh_dir, filenames, is_file) ==
    IF filenames = <<>> THEN <<>>
    ELSE (IF Head(filenames) \in is_file THEN <<ssh_dir \o <<Head(filenames)>>>> ELSE <<>>)
         \o KeyPaths(ssh_dir, Tail(filenames), is_file)

\* home: Option of the home directory; is_file: the key files that exist
get_ssh_keys(home, is_file) ==
    IF IsSome(home) THEN KeyPaths(<<home.val, ".ssh">>, KeyFilenames, is_file)
    ELSE <<>>

-----------------------------------------------------------------------------
(* with_remote_git_callbacks: the three callback slots and the Mutex       *)

Slots == {"get_ssh_keys", "get_password", "get_username_password"}
Urls == {"ssh://h/a", "https://h/b"}

\* what the helper may do when get_password runs it
PinEnvs ==
    { [io |-> "spawn_err", lines |-> <<>>],
      [io |-> "read_err", lines |-> <<>>],
      [io |-> "ok", lines |-> <<Str(<<"O", "K">>), <<>>>>],
      [io |-> "ok", lines |-> <<Str(<<"D", " ", "a", "b", "%", "4">>)>>],
      [io |-> "ok", lines |-> <<Str(<<"O", "K">>), Str(<<"D", " ", "s", "%", "4", "1">>), <<>>>>] }
NoEnv == [io |-> "none", lines |-> <<>>]

\* what the operator may type (Ui::prompt / Ui::prompt_password with .ok())
Usernames == {None, Some(Str(<<"u">>))}
Passwords == {None, Some(Str(<<"x">>))}

Homes == {None, Some("/home/u")}

NotCalled == [tag |-> "NotCalled"]
Pending == [tag |-> "Pending"]

Event(kind, url) == [kind |-> kind, url |-> url]

\* TryLock with no exclusion: the lock is handed out while a guard is alive
TryLockNoWait(mutex) == TRUE

\* Mutex::lock returns only when no guard is alive
TryLock(mutex) == mutex = "free"

\* DropGuard with the guard leaked: the mutex stays locked after the return
DropGuardLeak(mutex, slot) == mutex

\* dropping the MutexGuard when the closure returns
DropGuard(mutex, slot) == IF mutex = slot THEN "free" ELSE mutex

\* the url each prompt is asked for
terminal_get_username(url) == Event("prompt_username", url)
terminal_get_pw(url) == Event("prompt_password", url)

\* GetPwResult with the agent's secret discarded for the terminal's answer
GetPwResultTerminalOnly(pin, ans) == ans

\* get_pw's result: pinentry_get_pw(url).or_else(|| terminal_get_pw(..))
GetPwResult(pin, ans) == OrElse(pin, ans)

\* GetUserPwResult with a failed password prompt read as an empty password
GetUserPwResultEmptyPw(user, pw) ==
    IF IsNone(user) THEN None
    ELSE Some(<<user.val, IF IsSome(pw) THEN pw.val ELSE <<>>>>)

\* get_user_pw's result: Some((username?, password?))
GetUserPwResult(user, pw) ==
    IF IsNone(user) THEN None
    ELSE IF IsNone(pw) THEN None
    ELSE Some(<<user.val, pw.val>>)

InitCallbacks ==
    /\ ui_mutex = "free"
    /\ cb_pc = [s \in Slots |-> "idle"]
    /\ cb_url = [s \in Slots |-> "-"]
    /\ cb_env = NoEnv
    /\ cb_pin = None
    /\ cb_user = None
    /\ cb_ans = [s \in Slots |-> None]
    /\ cb_ret = [s \in Slots |-> NotCalled]
    /\ cb_trace = [s \in Slots |-> <<>>]

\* the transport layer invokes a slot
Call(slot, url, pc) ==
    /\ cb_pc[slot] = "idle"
    /\ cb_pc' = [cb_pc EXCEPT ![slot] = pc]
    /\ cb_url' = [cb_url EXCEPT ![slot] = url]
    /\ cb_ret' = [cb_ret EXCEPT ![slot] = Pending]
    /\ cb_ans' = [cb_ans EXCEPT ![slot] = None]

GetSshKeysCall(username) ==
    /\ Call("get_ssh_keys", username, "scan")
    /\ cb_trace' = [cb_trace EXCEPT !["get_ssh_keys"] = <<>>]
    /\ UNCHANGED <<ui_mutex, cb_env, cb_pin, cb_user>>

GetSshKeysReturn(home, is_file) ==
    /\ cb_pc["get_ssh_keys"] = "scan"
    /\ cb_pc' = [cb_pc EXCEPT !["get_ssh_keys"] = "idle"]
    /\ cb_ret' = [cb_ret EXCEPT !["get_ssh_keys"] = Some(get_ssh_keys(home, is_file))]
    /\ UNCHANGED <<ui_mutex, cb_url, cb_env, cb_pin, cb_user, cb_ans, cb_trace>>

GetPwCall(url) ==
    /\ Call("get_password", url, "pinentry_get_pw")
    /\ cb_trace' = [cb_trace EXCEPT !["get_password"] = <<Event("pinentry", url)>>]
    /\ cb_env' = NoEnv
    /\ cb_pin' = None
    /\ UNCHANGED <<ui_mutex, cb_user>>

\* pinentry_get_pw returns; a secret ends the callback, None goes on to or_else
GetPwPinentry(env) ==
    /\ cb_pc["get_password"] = "pinentry_get_pw"
    /\ LET pin == pinentry_get_pw(env.io, JoinLines(env.lines))
       IN  /\ cb_env' = env
           /\ cb_pin' = pin
           /\ IF IsSome(pin)
              THEN /\ cb_pc' = [cb_pc EXCEPT !["get_password"] = "idle"]
                   /\ cb_ret' = [cb_ret EXCEPT !["get_password"] = GetPwResult(pin, None)]
              ELSE /\ cb_pc' = [cb_pc EXCEPT !["get_password"] = "lock"]
                   /\ UNCHANGED cb_ret
    /\ UNCHANGED <<ui_mutex, cb_url, cb_user, cb_ans, cb_trace>>

\* ui.lock().unwrap(), then terminal_get_pw asks its question
GetPwLock ==
    /\ cb_pc["get_password"] = "lock"
    /\ TryLock(ui_mutex)
    /\ ui_mutex' = "get_password"
    /\ cb_pc' = [cb_pc EXCEPT !["get_password"] = "terminal_get_pw"]
    /\ cb_trace' = [cb_trace EXCEPT !["get_password"] =
                       @ \o <<Event("lock", "-"), terminal_get_pw(cb_url["get_password"])>>]
    /\ UNCHANGED <<cb_url, cb_env, cb_pin, cb_user, cb_ans, cb_ret>>

GetPwAnswer(ans) ==
    /\ cb_pc["get_password"] = "terminal_get_pw"
    /\ cb_ans' = [cb_ans EXCEPT !["get_password"] = ans]
    /\ cb_pc' = [cb_pc EXCEPT !["get_password"] = "drop"]
    /\ UNCHANGED <<ui_mutex, cb_url, cb_env, cb_pin, cb_user, cb_ret, cb_trace>>

\* the closure returns: the temporary guard is dropped
GetPwReturn ==
    /\ cb_pc["get_password"] = "drop"
    /\ ui_mutex' = DropGuard(ui_mutex, "get_password")
    /\ cb_pc' = [cb_pc EXCEPT !["get_password"] = "idle"]
    /\ cb_ret' = [cb_ret EXCEPT !["get_password"] =
                     GetPwResult(cb_pin, cb_ans["get_password"])]
    /\ cb_trace' = [cb_trace EXCEPT !["get_password"] = Append(@, Event("unlock", "-"))]
    /\ UNCHANGED <<cb_url, cb_env, cb_pin, cb_user, cb_ans>>

GetUserPwCall(url) ==
    /\ Call("get_username_password", url, "lock")
    /\ cb_trace' = [cb_trace EXCEPT !["get_username_password"] = <<>>]
    /\ cb_user' = None
    /\ UNCHANGED <<ui_mutex, cb_env, cb_pin>>

\* let ui = &mut *ui.lock().unwrap(), then terminal_get_username asks its question
GetUserPwLock ==
    /\ cb_pc["get_username_password"] = "lock"
    /\ TryLock(ui_mutex)
    /\ ui_mutex' = "get_username_password"
    /\ cb_pc' = [cb_pc EXCEPT !["get_username_password"] = "terminal_get_username"]
    /\ cb_trace' = [cb_trace EXCEPT !["get_username_password"] =
                       @ \o <<Event("lock", "-"),
                              terminal_get_username(cb_url["get_username_password"])>>]
    /\ UNCHANGED <<cb_url, cb_env, cb_pin, cb_user, cb_ans, cb_ret>>

\* terminal_get_username(ui, url)?: None leaves the closure, a name goes on to
\* terminal_get_pw with the guard still alive
GetUserPwUsername(ans) ==
    /\ cb_pc["get_username_password"] = "terminal_get_username"
    /\ cb_user' = ans
    /\ IF IsNone(ans)
       THEN /\ cb_pc' = [cb_pc EXCEPT !["get_username_password"] = "drop"]
            /\ UNCHANGED cb_trace
       ELSE /\ cb_pc' = [cb_pc EXCEPT !["get_username_password"] = "terminal_get_pw"]
            /\ cb_trace' = [cb_trace EXCEPT !["get_username_password"] =
                               Append(@, terminal_get_pw(cb_url["get_username_password"]))]
    /\ UNCHANGED <<ui_mutex, cb_url, cb_env, cb_pin, cb_ans, cb_ret>>

GetUserPwPassword(ans) ==
    /\ cb_pc["get_username_password"] = "terminal_get_pw"
    /\ cb_ans' = [cb_ans EXCEPT !["get_username_password"] = ans]
    /\ cb_pc' = [cb_pc EXCEPT !["get_username_password"] = "drop"]
    /\ UNCHANGED <<ui_mutex, cb_url, cb_env, cb_pin, cb_user, cb_ret, cb_trace>>

\* the closure returns: the guard bound for the whole body is dropped
GetUserPwReturn ==
    /\ cb_pc["get_username_password"] = "drop"
    /\ ui_mutex' = DropGuard(ui_mutex, "get_username_password")
    /\ cb_pc' = [cb_pc EXCEPT !["get_username_password"] = "idle"]
    /\ cb_ret' = [cb_ret EXCEPT !["get_username_password"] =
                     GetUserPwResult(cb_user, cb_ans["get_username_password"])]
    /\ cb_trace' = [cb_trace EXCEPT !["get_username_password"] =
                       Append(@, Event("unlock", "-"))]
    /\ UNCHANGED <<cb_url, cb_env, cb_pin, cb_user, cb_ans>>

-----------------------------------------------------------------------------
(* print_git_import_stats, RefStatus::new, RefStatus::output               *)

\* RefName: the three variants; names are sequences of characters
RemoteBranch(branch, remote) == [variant |-> "RemoteBranch", name |-> branch, remote |-> remote]
Tag(tag) == [variant |-> "Tag", name |-> tag, remote |-> <<>>]
LocalBranch(branch) == [variant |-> "LocalBranch", name |-> branch, remote |-> <<>>]

\* "<CJK>" stands for one full-width character
RefNamePool ==
    { RemoteBranch(<<"m">>, <<"o">>), RemoteBranch(<<"d", "v">>, <<"o">>),
      Tag(<<"v", "1">>), Tag(<<"<CJK>">>), LocalBranch(<<"m">>) }

\* the (branch, remote) pairs of the pool, for repo.view().get_remote_branch
BranchPairs == { <<r.name, r.remote>> : r \in {x \in RefNamePool : x.variant = "RemoteBranch"} }

\* UnicodeWidthStr::width
CharWidth(c) == IF c = "<CJK>" THEN 2 ELSE 1

RECURSIVE Width(_)
Width(name) == IF name = <<>> THEN 0 ELSE CharWidth(Head(name)) + Width(Tail(name))

\* the tracking status of a RemoteBranch: is_tracking() of the view's remote ref
RemoteTracking(is_tracking) == IF is_tracking THEN "Tracked" ELSE "Untracked"

\* ImportStatusOf decided by the previous target alone when it is absent
ImportStatusOfPrevFirst(prev_absent, new_absent) ==
    IF prev_absent THEN "New"
    ELSE IF new_absent THEN "Deleted"
    ELSE "Updated"

\* the match on (remote_ref.target.is_absent(), ref_target.is_absent())
ImportStatusOf(prev_absent, new_absent) ==
    IF prev_absent /\ ~new_absent THEN "New"
    ELSE IF ~prev_absent /\ new_absent THEN "Deleted"
    ELSE "Updated"

\* RefStatus::new; tracking is the set of pairs the view reports as tracking
RefStatusNew(ref_name, prev_absent, new_absent, tracking) ==
    LET head ==
            IF ref_name.variant = "RemoteBranch"
            THEN [ref_name |-> ref_name.name \o <<"@">> \o ref_name.remote,
                  ref_kind |-> "Branch",
                  tracking_status |->
                      RemoteTracking(<<ref_name.name, ref_name.remote>> \in tracking)]
            ELSE IF ref_name.variant = "Tag"
            THEN [ref_name |-> ref_name.name, ref_kind |-> "Tag",
                  tracking_status |-> "NotApplicable"]
            ELSE [ref_name |-> ref_name.name, ref_kind |-> "Branch",
                  tracking_status |-> "Tracked"]
    IN  [ref_name |-> head.ref_name,
         tracking_status |-> head.tracking_status,
         import_status |-> ImportStatusOf(prev_absent, new_absent),
         ref_kind |-> head.ref_kind]

\* the .map(RefStatus::new).collect_vec() over stats.changed_remote_refs
CollectRefStats(changed, tracking) ==
    [i \in DOMAIN changed |->
        RefStatusNew(changed[i].ref_name, changed[i].prev_absent,
                     changed[i].new_absent, tracking)]

Max(S) == CHOOSE x \in S : \A y \in S : y <= x

Spaces(n) == [i \in 1..n |-> " "]

\* usize::saturating_sub
SaturatingSub(a, b) == IF a >= b THEN a - b ELSE 0

\* RefStatus::output: the line it writes
RefStatusOutput(status, max_ref_name_width, has_both_ref_kinds) ==
    [type |-> "ref",
     label |-> IF status.ref_kind = "Branch" THEN "branch: "
               ELSE IF ~has_both_ref_kinds THEN "tag: "
               ELSE "tag:    ",
     name |-> status.ref_name
              \o Spaces(SaturatingSub(max_ref_name_width, Width(status.ref_name))),
     import |-> IF status.import_status = "New" THEN "new"
                ELSE IF status.import_status = "Deleted" THEN "deleted"
                ELSE "updated",
     tracking |-> IF status.tracking_status = "Tracked" THEN "tracked"
                  ELSE IF status.tracking_status = "Untracked" THEN "untracked"
                  ELSE "",
     count |-> 0]

\* "Abandoned {} commits that are no longer reachable."
AbandonedLine(n) ==
    [type |-> "abandoned", label |-> "", name |-> <<>>, import |-> "", tracking |-> "",
     count |-> n]

\* the lines of the if show_ref_stats block
RefLines(st, show, tracking) ==
    IF show
    THEN LET rs == CollectRefStats(st.changed_remote_refs, tracking)
             has_both_ref_kinds ==
                 /\ \E i \in DOMAIN rs : rs[i].ref_kind = "Branch"
                 /\ \E i \in DOMAIN rs : rs[i].ref_kind = "Tag"
         IN  IF rs = <<>> THEN <<>>
             ELSE LET max_width == Max({Width(rs[i].ref_name) : i \in DOMAIN rs})
                  IN  [i \in DOMAIN rs |-> RefStatusOutput(rs[i], max_width, has_both_ref_kinds)]
    ELSE <<>>

\* AbandonedLines with the block nested inside if show_ref_stats
AbandonedLinesIfShown(st, show) ==
    IF show /\ st.abandoned_commits # 0 THEN <<AbandonedLine(st.abandoned_commits)>> ELSE <<>>

\* the line of the if !stats.abandoned_commits.is_empty() block
AbandonedLines(st, show) ==
    IF st.abandoned_commits # 0 THEN <<AbandonedLine(st.abandoned_commits)>> ELSE <<>>

\* everything print_git_import_stats writes when no write fails
print_git_import_stats(st, show, tracking) ==
    RefLines(st, show, tracking) \o AbandonedLines(st, show)

-----------------------------------------------------------------------------
(* print_failed_git_export                                                 *)

\* FailedRefExportReason: its kind and the chain of its sources (err.source())
ReasonPool ==
    { [kind |-> "InvalidGitName", sources |-> <<>>],
      [kind |-> "FailedToDelete", sources |-> <<"reference is locked">>],
      [kind |-> "FailedToSet", sources |-> <<"cannot lock ref">>],
      [kind |-> "FailedToSet", sources |-> <<"cannot lock ref", "directory exists">>] }

ExportNames == {"foo", "foo/bar"}

\* Display of the top-level reason
ReasonDisplay(kind) ==
    IF kind = "InvalidGitName" THEN "Name is not allowed in Git"
    ELSE IF kind = "FailedToDelete" THEN "Failed to delete"
    ELSE "Failed to set"

\* iter::successors(Some(reason), |err| err.source()): the reason, then each source
ErrorChain(reason) == <<ReasonDisplay(reason.kind)>> \o reason.sources

\* the write!(formatter, ": {err}") of every error of the chain
RECURSIVE ChainTokens(_)
ChainTokens(chain) ==
    IF chain = <<>> THEN <<>>
    ELSE <<": ", Head(chain)>> \o ChainTokens(Tail(chain))

FailureLine(failed) ==
    [type |-> "branch",
     tokens |-> <<"  ", failed.name>> \o ChainTokens(ErrorChain(failed.reason))]

HeaderLine == [type |-> "warning", tokens |-> <<"Failed to export some branches:">>]
HintLine == [type |-> "hint", tokens |-> <<"Hint: Git doesn't allow a branch name that looks like a parent directory of another">>]

\* AnyFailedToSet with all() in place of any()
AllFailedToSet(failed) == \A i \in DOMAIN failed : failed[i].reason.kind = "FailedToSet"

\* failed_branches.iter().any(|failed| matches!(failed.reason, FailedToSet(_)))
AnyFailedToSet(failed) == \E i \in DOMAIN failed : failed[i].reason.kind = "FailedToSet"

\* everything print_failed_git_export writes when no write fails
print_failed_git_export(failed) ==
    IF failed # <<>>
    THEN <<HeaderLine>>
         \o [i \in DOMAIN failed |-> FailureLine(failed[i])]
         \o (IF AnyFailedToSet(failed) THEN <<HintLine>> ELSE <<>>)
    ELSE <<>>

-----------------------------------------------------------------------------
(* expand_git_path                                                         *)

\* Path::is_absolute on Unix
IsAbsolute(path) == path # <<>> /\ Head(path) = Byte("/")

\* PathBuf::join / PathBuf::push on Unix: an absolute path replaces the base,
\* a separator is added unless the base is empty or ends with one
PathJoin(base, path) ==
    IF IsAbsolute(path) THEN path
    ELSE IF base # <<>> /\ base[Len(base)] # Byte("/") THEN base \o <<Byte("/")>> \o path
    ELSE base \o path

\* home: std::env::var("HOME").ok()
expand_git_path(path, home) ==
    IF StartsWith(path, Str(<<"~", "/">>)) /\ IsSome(home)
    THEN PathJoin(home.val, After(path, 2))
    ELSE path

-----------------------------------------------------------------------------
(* Inputs and initial states.                                              *)

SeqsUpTo(S, n) == UNION { [1..k -> S] : k \in 0..n }

Ok == [tag |-> "Ok"]
Err == [tag |-> "Err"]

\* a write to the Ui's stream may fail (io::Error, propagated by ?): the lines
\* before the failing write are out, the function returns Err
Written(full, k) == SubSeq(full, 1, k)
WriteResult(full, k) == IF k = Len(full) THEN Ok ELSE Err

\* bytes of the payloads handed to decode_assuan_data
EncAlphabet == { Byte("%"), Byte("4"), Byte("8"), Byte("c"), Byte("+"), Byte("g") }

\* lines the helper process may print
HelperLines ==
    { <<>>, Str(<<"O", "K">>), Str(<<"E", "R", "R">>), Str(<<"D">>), Str(<<"D", " ">>),
      Str(<<"D", " ", "s">>), Str(<<"D", " ", "a", "b", "%", "4">>),
      Str(<<"D", " ", "%", "4", "1">>) }

ChangedRecords ==
    [ref_name : RefNamePool, prev_absent : BOOLEAN, new_absent : BOOLEAN]

\* the change set is a map: no reference name occurs twice
ChangeSets ==
    { cs \in SeqsUpTo(ChangedRecords, MaxRefs) :
        \A i, j \in DOMAIN cs : i # j => cs[i].ref_name # cs[j].ref_name }

FailedExports == [name : ExportNames, reason : ReasonPool]

PathAlphabet == { Byte("~"), Byte("/"), Byte("c") }
HomeDirs == { None, Some(Str(<<"/", "h">>)), Some(Str(<<"/", "h", "/">>)) }

IdleDecode == encoded = <<>> /\ decode_pc = "idle" /\ decode_ret = None
IdlePinentry == pin_lines = <<>> /\ pin_io = "ok" /\ pin_pc = "idle" /\ pin_ret = None
IdleImport ==
    /\ stats = [changed_remote_refs |-> <<>>, abandoned_commits |-> 0]
    /\ show_ref_stats = FALSE
    /\ view_tracking = {}
    /\ import_pc = "idle"
    /\ refs_stats = <<>>
    /\ import_out = <<>>
    /\ import_ret = Ok
IdleExport ==
    failed_branches = <<>> /\ export_pc = "idle" /\ export_out = <<>> /\ export_ret = Ok
IdleExpand == path_str = <<>> /\ env_home = None /\ expand_pc = "idle" /\ expand_ret = <<>>

InitDecode ==
    /\ encoded \in { e \in SeqsUpTo(EncAlphabet, MaxEncLen) : IsUtf8(e) }
    /\ decode_pc = "call"
    /\ decode_ret = None
    /\ IdlePinentry /\ InitCallbacks /\ IdleImport /\ IdleExport /\ IdleExpand

InitPinentry ==
    /\ pin_lines \in SeqsUpTo(HelperLines, MaxLines)
    /\ pin_io \in PinIo
    /\ pin_pc = "call"
    /\ pin_ret = None
    /\ IdleDecode /\ InitCallbacks /\ IdleImport /\ IdleExport /\ IdleExpand

Init ==
    /\ InitCallbacks
    /\ IdleDecode /\ IdlePinentry /\ IdleImport /\ IdleExport /\ IdleExpand

InitImport ==
    /\ stats \in [changed_remote_refs : ChangeSets, abandoned_commits : 0..MaxAbandoned]
    /\ show_ref_stats \in BOOLEAN
    /\ view_tracking \in SUBSET BranchPairs
    /\ import_pc = "call"
    /\ refs_stats = <<>>
    /\ import_out = <<>>
    /\ import_ret = Ok
    /\ IdleDecode /\ IdlePinentry /\ InitCallbacks /\ IdleExport /\ IdleExpand

InitExport ==
    /\ failed_branches \in SeqsUpTo(FailedExports, MaxFailed)
    /\ export_pc = "call"
    /\ export_out = <<>>
    /\ export_ret = Ok
    /\ IdleDecode /\ IdlePinentry /\ InitCallbacks /\ IdleImport /\ IdleExpand

InitExpand ==
    /\ path_str \in SeqsUpTo(PathAlphabet, MaxPathLen)
    /\ env_home \in HomeDirs
    /\ expand_pc = "call"
    /\ expand_ret = <<>>
    /\ IdleDecode /\ IdlePinentry /\ InitCallbacks /\ IdleImport /\ IdleExport

-----------------------------------------------------------------------------
(* Actions of the functions called once.                                   *)

DecodeAssuanData ==
    /\ decode_pc = "call"
    /\ decode_ret' = decode_assuan_data(encoded)
    /\ decode_pc' = "ret"
    /\ UNCHANGED <<encoded, pinVars, cbVars, importVars, exportVars, expandVars>>

PinentryGetPw ==
    /\ pin_pc = "call"
    /\ pin_ret' = pinentry_get_pw(pin_io, JoinLines(pin_lines))
    /\ pin_pc' = "ret"
    /\ UNCHANGED <<pin_lines, pin_io, decodeVars, cbVars, importVars, exportVars, expandVars>>

PrintGitImportStats(k) ==
    /\ import_pc = "call"
    /\ LET full == print_git_import_stats(stats, show_ref_stats, view_tracking)
       IN  /\ k <= Len(full)
           /\ import_out' = Written(full, k)
           /\ import_ret' = WriteResult(full, k)
    /\ refs_stats' = IF show_ref_stats
                     THEN CollectRefStats(stats.changed_remote_refs, view_tracking)
                     ELSE <<>>
    /\ import_pc' = "ret"
    /\ UNCHANGED <<stats, show_ref_stats, view_tracking,
                   decodeVars, pinVars, cbVars, exportVars, expandVars>>

PrintFailedGitExport(k) ==
    /\ export_pc = "call"
    /\ LET full == print_failed_git_export(failed_branches)
       IN  /\ k <= Len(full)
           /\ export_out' = Written(full, k)
           /\ export_ret' = WriteResult(full, k)
    /\ export_pc' = "ret"
    /\ UNCHANGED <<failed_branches, decodeVars, pinVars, cbVars, importVars, expandVars>>

ExpandGitPath ==
    /\ expand_pc = "call"
    /\ expand_ret' = expand_git_path(path_str, env_home)
    /\ expand_pc' = "ret"
    /\ UNCHANGED <<path_str, env_home, decodeVars, pinVars, cbVars, importVars, exportVars>>

-----------------------------------------------------------------------------
(* Specifications.                                                         *)

otherVars == <<decodeVars, pinVars, importVars, exportVars, expandVars>>

\* the callback slots of one with_remote_git_callbacks, invoked in any interleaving
Next ==
    \/ \E u \in Urls : GetSshKeysCall(u) /\ UNCHANGED otherVars
    \/ \E h \in Homes, f \in SUBSET {"id_ed25519_sk", "id_ed25519", "id_rsa"} :
           GetSshKeysReturn(h, f) /\ UNCHANGED otherVars
    \/ \E u \in Urls : GetPwCall(u) /\ UNCHANGED otherVars
    \/ \E e \in PinEnvs : GetPwPinentry(e) /\ UNCHANGED otherVars
    \/ GetPwLock /\ UNCHANGED otherVars
    \/ \E a \in Passwords : GetPwAnswer(a) /\ UNCHANGED otherVars
    \/ GetPwReturn /\ UNCHANGED otherVars
    \/ \E u \in Urls : GetUserPwCall(u) /\ UNCHANGED otherVars
    \/ GetUserPwLock /\ UNCHANGED otherVars
    \/ \E a \in Usernames : GetUserPwUsername(a) /\ UNCHANGED otherVars
    \/ \E a \in Passwords : GetUserPwPassword(a) /\ UNCHANGED otherVars
    \/ GetUserPwReturn /\ UNCHANGED otherVars

Spec == Init /\ [][Next]_vars

NextDecode == DecodeAssuanData
SpecDecode == InitDecode /\ [][NextDecode]_vars

NextPinentry == PinentryGetPw
SpecPinentry == InitPinentry /\ [][NextPinentry]_vars

NextImport == \E k \in 0..(MaxRefs + 1) : PrintGitImportStats(k)
SpecImport == InitImport /\ [][NextImport]_vars

NextExport == \E k \in 0..(MaxFailed + 2) : PrintFailedGitExport(k)
SpecExport == InitExport /\ [][NextExport]_vars

NextExpand == ExpandGitPath
SpecExpand == InitExpand /\ [][NextExpand]_vars

-----------------------------------------------------------------------------
(* Properties of the credential callbacks (specification Spec).            *)

PwSlot == "get_password"
UserPwSlot == "get_username_password"

IsPrompt(e) == e.kind = "prompt_username" \/ e.kind = "prompt_password"

\* the prompts a trace holds, in order
Prompts(tr) == SelectSeq(tr, IsPrompt)

\* a slot is inside a prompt exchange: the question is out, the answer is not in
Prompting(s) == cb_pc[s] \in {"terminal_get_username", "terminal_get_pw"}

Returned(s) == cb_pc[s] = "idle" /\ cb_ret[s] # NotCalled

MalformedEnv == [io |-> "ok", lines |-> <<Str(<<"D", " ", "a", "b", "%", "4">>)>>]

\* C1: get_password asks the secure-entry agent first, for the call's URL; the
\* terminal password prompt is issued iff the agent returned no secret (as it
\* does for the data line "D ab%4"), once and for the same URL; the callback
\* returns the agent's secret when there is one, else the prompt's answer, and
\* returns None only when both gave nothing.
C1_PasswordFallback ==
    LET tr == cb_trace[PwSlot]
        url == cb_url[PwSlot]
        asked == Prompts(tr)
    IN  /\ cb_ret[PwSlot] # NotCalled =>
              /\ tr # <<>> /\ tr[1] = Event("pinentry", url)
              /\ \A i \in DOMAIN asked : asked[i] = Event("prompt_password", url)
              /\ asked # <<>> => cb_env # NoEnv /\ IsNone(cb_pin)
        /\ Returned(PwSlot) =>
              /\ Len(asked) = (IF IsNone(cb_pin) THEN 1 ELSE 0)
              /\ cb_env = MalformedEnv => asked = <<Event("prompt_password", url)>>
              /\ IsSome(cb_pin) => cb_ret[PwSlot] = cb_pin
              /\ IsNone(cb_pin) => cb_ret[PwSlot] = cb_ans[PwSlot]
              /\ IsNone(cb_ret[PwSlot]) <=> (IsNone(cb_pin) /\ IsNone(cb_ans[PwSlot]))

\* the agent answered "D ab%4", the terminal was asked for the same URL and its
\* answer was returned
C1_Witness ==
    /\ Returned(PwSlot)
    /\ cb_env = MalformedEnv
    /\ Prompts(cb_trace[PwSlot]) = <<Event("prompt_password", cb_url[PwSlot])>>
    /\ cb_ret[PwSlot] = Some(Str(<<"x">>))

\* C2: get_username_password asks for the username, then for the password, both
\* for the call's URL; it returns the pair only if both prompts succeed and None
\* if either fails; after a failed username prompt no password prompt is
\* issued; the secure-entry agent is never consulted.
C2_UsernameThenPassword ==
    LET tr == cb_trace[UserPwSlot]
        url == cb_url[UserPwSlot]
        asked == Prompts(tr)
        user_q == Event("prompt_username", url)
        pw_q == Event("prompt_password", url)
    IN  /\ \A i \in DOMAIN tr : tr[i].kind # "pinentry"
        /\ asked \in {<<>>, <<user_q>>, <<user_q, pw_q>>}
        /\ Len(asked) = 2 => IsSome(cb_user)
        /\ Returned(UserPwSlot) =>
              /\ asked = (IF IsSome(cb_user) THEN <<user_q, pw_q>> ELSE <<user_q>>)
              /\ IsSome(cb_ret[UserPwSlot]) <=>
                     (IsSome(cb_user) /\ IsSome(cb_ans[UserPwSlot]))
              /\ IsSome(cb_ret[UserPwSlot]) =>
                     cb_ret[UserPwSlot].val = <<cb_user.val, cb_ans[UserPwSlot].val>>
              /\ ~IsSome(cb_ret[UserPwSlot]) => cb_ret[UserPwSlot] = None

\* the username prompt failed: None is returned and the password was never asked
C2_Witness ==
    /\ Returned(UserPwSlot)
    /\ IsNone(cb_user)
    /\ cb_ret[UserPwSlot] = None
    /\ Prompts(cb_trace[UserPwSlot]) = <<Event("prompt_username", cb_url[UserPwSlot])>>

\* C5: at most one prompt is in flight at any time, and only under the guard;
\* a callback that has returned (after success, a failed username prompt or a
\* failed password prompt) no longer holds the guard, so the guard is free
\* whenever no callback is between its lock and its return and a later lock
\* succeeds.
C5_PromptMutualExclusion ==
    /\ Cardinality({s \in Slots : Prompting(s)}) <= 1
    /\ \A s \in Slots : Prompting(s) => ui_mutex = s
    /\ \A s \in Slots : cb_pc[s] = "idle" => ui_mutex # s
    /\ (\A s \in Slots : cb_pc[s] \in {"idle", "scan", "pinentry_get_pw", "lock"})
           => ui_mutex = "free"

\* get_username_password returned after a failed username prompt, and
\* get_password, locking later, holds the guard for its prompt
C5_Witness ==
    /\ Returned(UserPwSlot)
    /\ IsNone(cb_user)
    /\ cb_pc[PwSlot] = "terminal_get_pw"
    /\ ui_mutex = PwSlot

\* C6 as claimed: every hold of the guard covers at most one prompt exchange,
\* and the guard is not held while the helper process runs.
C6_SingleExchangePerHold ==
    /\ \A s \in Slots : Len(Prompts(cb_trace[s])) <= 1
    /\ cb_pc[PwSlot] = "pinentry_get_pw" => ui_mutex # PwSlot

\* C6 as amended: get_password holds the guard only for its one terminal
\* prompt exchange and never while the helper process runs;
\* get_username_password takes the guard once, before the username prompt, and
\* keeps it over the password prompt until the callback returns; each callback
\* holds the guard exactly from its lock to its return.
C6_GuardHeldUntilReturn ==
    /\ Len(Prompts(cb_trace[PwSlot])) <= 1
    /\ Len(Prompts(cb_trace[UserPwSlot])) <= 2
    /\ ui_mutex = PwSlot <=> cb_pc[PwSlot] \in {"terminal_get_pw", "drop"}
    /\ ui_mutex = UserPwSlot <=>
           cb_pc[UserPwSlot] \in {"terminal_get_username", "terminal_get_pw", "drop"}
    /\ ui_mutex # "get_ssh_keys"
    /\ cb_pc[UserPwSlot] = "terminal_get_pw" =>
           cb_trace[UserPwSlot] =
               <<Event("lock", "-"),
                 Event("prompt_username", cb_url[UserPwSlot]),
                 Event("prompt_password", cb_url[UserPwSlot])>>

\* the password prompt of get_username_password is in flight under the guard
\* taken before the username prompt
C6_Witness ==
    /\ cb_pc[UserPwSlot] = "terminal_get_pw"
    /\ ui_mutex = UserPwSlot
    /\ Len(Prompts(cb_trace[UserPwSlot])) = 2

-----------------------------------------------------------------------------
(* Properties of decode_assuan_data (specification SpecDecode).            *)

IsHexDigit(b) ==
    \/ b >= 48 /\ b <= 57
    \/ b >= 97 /\ b <= 102
    \/ b >= 65 /\ b <= 70

HexValue(b) == IF b <= 57 THEN b - 48 ELSE IF b >= 97 THEN b - 87 ELSE b - 55

\* every '%' is followed by two hexadecimal digits
WellEscaped(s) ==
    \A i \in DOMAIN s :
        s[i] = Byte("%") =>
            i + 2 <= Len(s) /\ IsHexDigit(s[i + 1]) /\ IsHexDigit(s[i + 2])

\* a well-escaped input with each %XY replaced by the byte XY
RECURSIVE Unescaped(_)
Unescaped(s) ==
    IF s = <<>> THEN <<>>
    ELSE IF Head(s) = Byte("%")
         THEN <<16 * HexValue(s[2]) + HexValue(s[3])>> \o Unescaped(After(s, 3))
    ELSE <<Head(s)>> \o Unescaped(Tail(s))

\* C3: the result is a value iff every '%' is followed by two hexadecimal
\* digits and the decoded bytes are valid UTF-8; the value is the input with
\* each %XY replaced by the byte XY and every other byte unchanged; a '%' at
\* the end or followed by fewer than two hexadecimal digits gives None.
C3_DecodeContract ==
    decode_pc = "ret" =>
        /\ IsSome(decode_ret) <=> (WellEscaped(encoded) /\ IsUtf8(Unescaped(encoded)))
        /\ IsSome(decode_ret) => decode_ret.val = Unescaped(encoded)
        /\ ~WellEscaped(encoded) => decode_ret = None

-----------------------------------------------------------------------------
(* Properties of pinentry_get_pw (specification SpecPinentry).             *)

\* the helper's lines that begin with the data marker
DataLines == { i \in DOMAIN pin_lines : StartsWith(pin_lines[i], Str(<<"D", " ">>)) }

FirstDataLine == CHOOSE i \in DataLines : \A j \in DataLines : i <= j

\* C4: the result is the decoding of the text after "D " of the first line that
\* begins with "D ", whatever the other lines are; it is None if the helper does
\* not spawn, if writing the request or reading the output fails, if no line
\* begins with "D ", or if decoding that first data line fails.
C4_FirstDataLineDecides ==
    pin_pc = "ret" =>
        IF pin_io # "ok" THEN pin_ret = None
        ELSE IF DataLines = {} THEN pin_ret = None
        ELSE /\ pin_ret = decode_assuan_data(After(pin_lines[FirstDataLine], 2))
             /\ pin_lines[FirstDataLine] = Str(<<"D", " ", "a", "b", "%", "4">>)
                    => pin_ret = None
             /\ pin_lines[FirstDataLine] = Str(<<"D", " ", "%", "4", "1">>)
                    => pin_ret = Some(<<65>>)

\* a status line, a malformed data line, then a well-formed data line: None
C4_Witness ==
    /\ pin_pc = "ret"
    /\ pin_io = "ok"
    /\ pin_lines = <<Str(<<"O", "K">>), Str(<<"D", " ", "a", "b", "%", "4">>),
                     Str(<<"D", " ", "s">>)>>
    /\ pin_ret = None

-----------------------------------------------------------------------------
(* Properties of print_git_import_stats and RefStatus::new (SpecImport).   *)

\* the name a reference is printed under
DisplayName(ref_name) ==
    IF ref_name.variant = "RemoteBranch"
    THEN ref_name.name \o <<"@">> \o ref_name.remote
    ELSE ref_name.name

\* a printed name column: the name, then only padding
IsPadded(column, name) ==
    /\ StartsWith(column, name)
    /\ \A i \in (Len(name) + 1)..Len(column) : column[i] = " "

\* line i is the line of changed reference i, for the first n lines
RefLinesInOrder(n) ==
    \A i \in 1..n :
        /\ import_out[i].type = "ref"
        /\ IsPadded(import_out[i].name, DisplayName(stats.changed_remote_refs[i].ref_name))

\* the last line, and no other, is the abandoned-commit summary
SummaryLast ==
    /\ import_out # <<>>
    /\ import_out[Len(import_out)] = AbandonedLine(stats.abandoned_commits)
    /\ \A i \in 1..(Len(import_out) - 1) : import_out[i].type # "abandoned"

NoSummary == \A i \in DOMAIN import_out : import_out[i].type # "abandoned"

\* C7 as claimed: without a requested report nothing is written; with one, one
\* line per changed reference in the change set's order, then one summary line
\* iff commits were abandoned.
C7_NothingUnlessRequested ==
    (import_pc = "ret" /\ import_ret = Ok) =>
        LET n == Len(stats.changed_remote_refs)
            summary == IF stats.abandoned_commits # 0 THEN 1 ELSE 0
        IN  /\ ~show_ref_stats => import_out = <<>>
            /\ show_ref_stats =>
                  /\ Len(import_out) = n + summary
                  /\ RefLinesInOrder(n)
                  /\ IF summary = 1 THEN SummaryLast ELSE NoSummary

\* C7 as amended: when no write fails, the per-reference lines are written only
\* if a report was requested, one per changed reference in the change set's
\* order; the abandoned-commit summary line is written after them iff commits
\* were abandoned, whether or not a report was requested.
C7_SummaryAlways ==
    (import_pc = "ret" /\ import_ret = Ok) =>
        LET n == IF show_ref_stats THEN Len(stats.changed_remote_refs) ELSE 0
            summary == IF stats.abandoned_commits # 0 THEN 1 ELSE 0
        IN  /\ Len(import_out) = n + summary
            /\ RefLinesInOrder(n)
            /\ IF summary = 1 THEN SummaryLast ELSE NoSummary

\* no report requested, two changed references, two abandoned commits: the
\* summary line alone is written
C7_Witness ==
    /\ import_pc = "ret" /\ import_ret = Ok
    /\ ~show_ref_stats
    /\ Len(stats.changed_remote_refs) = 2
    /\ stats.abandoned_commits = 2
    /\ import_out = <<AbandonedLine(2)>>

\* C9: every change record gets one status; tracking is NotApplicable iff the
\* kind is Tag; a local branch is a Branch and Tracked; a remote branch is a
\* Branch named "<branch>@<remote>", Tracked iff the view reports the pair as
\* tracking, else Untracked; the import status is New for (absent, present),
\* Deleted for (present, absent) and Updated otherwise, whatever the kind.
C9_Classification ==
    (import_pc = "ret" /\ show_ref_stats) =>
        /\ Len(refs_stats) = Len(stats.changed_remote_refs)
        /\ \A i \in DOMAIN refs_stats :
              LET r == stats.changed_remote_refs[i]
                  n == r.ref_name
                  s == refs_stats[i]
              IN  /\ s.ref_kind \in {"Branch", "Tag"}
                  /\ s.tracking_status \in {"Tracked", "Untracked", "NotApplicable"}
                  /\ s.tracking_status = "NotApplicable" <=> s.ref_kind = "Tag"
                  /\ s.ref_kind = "Tag" <=> n.variant = "Tag"
                  /\ n.variant = "Tag" => s.ref_name = n.name
                  /\ n.variant = "LocalBranch" =>
                         /\ s.ref_kind = "Branch"
                         /\ s.tracking_status = "Tracked"
                         /\ s.ref_name = n.name
                  /\ n.variant = "RemoteBranch" =>
                         /\ s.ref_kind = "Branch"
                         /\ s.ref_name = n.name \o <<"@">> \o n.remote
                         /\ s.tracking_status =
                                (IF <<n.name, n.remote>> \in view_tracking
                                 THEN "Tracked" ELSE "Untracked")
                  /\ s.import_status =
                         (CASE r.prev_absent /\ ~r.new_absent -> "New"
                            [] ~r.prev_absent /\ r.new_absent -> "Deleted"
                            [] r.prev_absent /\ r.new_absent -> "Updated"
                            [] ~r.prev_absent /\ ~r.new_absent -> "Updated")

\* a tag whose targets are both absent next to an untracked remote branch
C9_Witness ==
    /\ import_pc = "ret" /\ show_ref_stats
    /\ Len(refs_stats) = 2
    /\ refs_stats[1] = [ref_name |-> <<"v", "1">>, tracking_status |-> "NotApplicable",
                        import_status |-> "Updated", ref_kind |-> "Tag"]
    /\ stats.changed_remote_refs[1].prev_absent /\ stats.changed_remote_refs[1].new_absent
    /\ refs_stats[2] = [ref_name |-> <<"m", "@", "o">>, tracking_status |-> "Untracked",
                        import_status |-> "New", ref_kind |-> "Branch"]

-----------------------------------------------------------------------------
(* Properties of print_failed_git_export (specification SpecExport).       *)

\* the tokens of a failure's line: the name, then ": " and an error, for the
\* top-level reason and then each of its sources
IsFailureLine(line, failed) ==
    LET n == Len(failed.reason.sources)
        t == line.tokens
    IN  /\ line.type = "branch"
        /\ Len(t) = 2 + 2 * (n + 1)
        /\ t[2] = failed.name
        /\ t[3] = ": " /\ t[4] = ReasonDisplay(failed.reason.kind)
        /\ \A j \in 1..n : t[3 + 2 * j] = ": " /\ t[4 + 2 * j] = failed.reason.sources[j]

\* C8: for an empty list nothing is written; otherwise the header once, then one
\* line per failure in list order with the name and its whole causal chain, and
\* the hint exactly once, after all failure lines, iff some failure's top-level
\* reason is FailedToSet.
C8_FailedExportReport ==
    (export_pc = "ret" /\ export_ret = Ok) =>
        LET n == Len(failed_branches)
            hint == IF \E i \in 1..n : failed_branches[i].reason.kind = "FailedToSet"
                    THEN 1 ELSE 0
        IN  IF n = 0 THEN export_out = <<>>
            ELSE /\ Len(export_out) = 1 + n + hint
                 /\ export_out[1] = HeaderLine
                 /\ \A i \in 1..n : IsFailureLine(export_out[1 + i], failed_branches[i])
                 /\ hint = 1 => export_out[n + 2] = HintLine
                 /\ \A i \in 1..(n + 1) : export_out[i].type # "hint"
                 /\ \A i \in 2..Len(export_out) : export_out[i].type # "warning"

\* a name that is not allowed, then a refused set with two sources: header, two
\* lines, hint
C8_Witness ==
    /\ export_pc = "ret" /\ export_ret = Ok
    /\ Len(failed_branches) = 2
    /\ failed_branches[1].reason.kind = "InvalidGitName"
    /\ failed_branches[2].reason.kind = "FailedToSet"
    /\ Len(failed_branches[2].reason.sources) = 2
    /\ Len(export_out) = 4
    /\ export_out[4] = HintLine

-----------------------------------------------------------------------------
(* Properties of expand_git_path (specification SpecExpand).               *)

\* the home directory, a separator unless it ends with one, and the remainder
UnderHome(home, remainder) ==
    home \o (IF home[Len(home)] = Byte("/") THEN <<>> ELSE <<Byte("/")>>) \o remainder

\* C10: a path that starts with "~/", with a home directory available, becomes
\* the home directory followed by the remainder of the path, so it lies under
\* the home directory; every other path is returned unchanged.
C10_ExpandUnderHome ==
    expand_pc = "ret" =>
        IF StartsWith(path_str, Str(<<"~", "/">>)) /\ IsSome(env_home)
        THEN /\ expand_ret = UnderHome(env_home.val, After(path_str, 2))
             /\ StartsWith(expand_ret, env_home.val)
        ELSE expand_ret = path_str

=============================================================================
